---------------------------- MODULE Spec2Model ----------------------------
(***************************************************************************)
(* A model of scraper.go: the background scraping job (startScrapingJob,   *)
(* createReports, scrapePage, getTotalReports), the reports table it       *)
(* writes, the text helpers (processNameField, parseTime) and the two read *)
(* handlers (getReports, getReportByID) that main registers on the router. *)
(*                                                                         *)
(* A text is a sequence of one-character strings (Go strings are indexed   *)
(* and sliced by position).  An instant is a whole number of seconds: the  *)
(* code formats every instant with time.RFC3339, which keeps seconds.      *)
(* log.Fatal and log.Fatalf end the process (os.Exit(1)): the variable     *)
(* fatal names the call that did, and nothing runs after it.               *)
(***************************************************************************)
EXTENDS Integers, Sequences, FiniteSets

(***************************************************************************)
(* Bounds of the model.                                                    *)
(***************************************************************************)
MaxPasses == 2      \* iterations of the startScrapingJob loop
MaxIds == 2         \* uuid.New() calls
MaxCards == 2       \* cards on one fetched page
MaxBurst == 6       \* requests one client sends at one instant
MaxNow == 3600      \* last instant of the clock, in seconds
MaxPages == 3       \* pages one pass fetches

(***************************************************************************)
(* Constants of the program.                                               *)
(***************************************************************************)
maxLength == 1024
PageSize == 15
SleepInterval == 3600      \* 60 * time.Minute, in seconds
StatusOK == 200
StatusNotFound == 404

Clients == {"c1"}
Ids == 1..(MaxIds + 1)

(***************************************************************************)
(* Characters and texts.                                                   *)
(***************************************************************************)
Digits == <<"0", "1", "2", "3", "4", "5", "6", "7", "8", "9">>
Letters == {"a", "b", "c", "d", "e", "g", "h", "i", "l", "m", "n", "o", "p",
            "r", "s", "t", "u", "x", "y", "B", "C", "E", "H", "T"}
Spaces == {" ", "\t", "\n"}

IsSpace(c) == c \in Spaces
IsLetter(c) == c \in Letters
IsDigit(c) == \E j \in 1..10 : Digits[j] = c
DigitVal(c) == (CHOOSE j \in 1..10 : Digits[j] = c) - 1

Rep(c, n) == [j \in 1..n |-> c]

SetMin(S) == CHOOSE x \in S : \A y \in S : x <= y
SetMax(S) == CHOOSE x \in S : \A y \in S : y <= x

\* strings.Fields: the maximal runs of non-space characters, in order.
Fields(s) ==
    LET F[n \in 0..Len(s)] ==
            IF n = 0 THEN <<<<>>, <<>>>>
            ELSE LET p == F[n - 1]
                 IN  IF IsSpace(s[n])
                     THEN IF p[2] = <<>> THEN p ELSE <<Append(p[1], p[2]), <<>>>>
                     ELSE <<p[1], Append(p[2], s[n])>>
        last == F[Len(s)]
    IN  IF last[2] = <<>> THEN last[1] ELSE Append(last[1], last[2])

\* strings.TrimSpace
TrimSpace(s) ==
    LET keep == {j \in 1..Len(s) : ~IsSpace(s[j])}
    IN  IF keep = {} THEN <<>> ELSE SubSeq(s, SetMin(keep), SetMax(keep))

\* strings.Contains
Contains(s, sub) ==
    \E j \in 0..(Len(s) - Len(sub)) : SubSeq(s, j + 1, j + Len(sub)) = sub


\* The value of a text of digits (strconv.Atoi of an unsigned decimal).
DecimalValue(s) ==
    LET V[n \in 0..Len(s)] == IF n = 0 THEN 0 ELSE 10 * V[n - 1] + DigitVal(s[n])
    IN  V[Len(s)]

IsDecimal(s) == Len(s) > 0 /\ \A j \in 1..Len(s) : IsDigit(s[j])

\* The largest int where strconv.IntSize is 32; where it is 64 the largest
\* int is 2^63 - 1, and what follows holds with that number in its place.
MaxInt == 2147483647

\* The value of a text of digits, and -1 when it is more than MaxInt.
ParseUint(s) ==
    LET V[n \in 0..Len(s)] ==
            IF n = 0 THEN 0
            ELSE LET v == V[n - 1]
                     d == DigitVal(s[n])
                 IN  IF v < 0 \/ v > (MaxInt - d) \div 10 THEN 0 - 1
                     ELSE 10 * v + d
    IN  V[Len(s)]

\* The digits of a text strconv.Atoi takes for a number, after its sign, and
\* the empty text when the syntax is wrong.
AtoiDigits(s) ==
    IF IsDecimal(s) THEN s
    ELSE IF Len(s) > 1 /\ s[1] \in {"-", "+"} /\ IsDecimal(Tail(s)) THEN Tail(s)
    ELSE <<>>

\* Whether strconv.Atoi returns an error: a syntax error, or a range error
\* for a number that no int holds (-MaxInt - 1 is an int).
AtoiErr(s) ==
    LET digits == AtoiDigits(s)
        front == SubSeq(digits, 1, Len(digits) - 1)
    IN  \/ digits = <<>>
        \/ /\ ParseUint(digits) < 0
           /\ ~(/\ s[1] = "-"
                /\ ParseUint(front) = MaxInt \div 10
                /\ digits[Len(digits)] = "8")

\* strconv.Atoi as getTotalReports uses it (totalReports, _ = ...): the error
\* is dropped.  Atoi's result is 0 on a syntax error, and the nearest int on
\* a range error.
Atoi(s) ==
    LET digits == AtoiDigits(s)
        v == ParseUint(digits)
    IN  IF digits = <<>> THEN 0
        ELSE IF s[1] = "-" THEN (IF v < 0 THEN 0 - MaxInt - 1 ELSE 0 - v)
        ELSE IF v < 0 THEN MaxInt ELSE v

(***************************************************************************)
(* Utility functions of the program.                                       *)
(***************************************************************************)
processNameField(s) ==
    SelectSeq(TrimSpace(s), LAMBDA c : IsLetter(c) \/ IsSpace(c))

\* The longest time.Duration (2^63 nanoseconds, negated), in whole minutes.
MaxDurationMinutes == 153722867

\* time.ParseDuration("-<amount><unit>") with its error dropped (duration, _
\* := ...), for an amount without "." and without a unit letter of its own:
\* the amount times the unit, in seconds, and 0 when ParseDuration fails,
\* because the amount is no number or because the duration leaves the range
\* of time.Duration.  Amounts have at most 9 digits here, which is in the
\* range for every amount of seconds.
ParseDuration(amount, unitSeconds) ==
    IF ~IsDecimal(amount) THEN 0
    ELSE IF unitSeconds >= 60
            /\ DecimalValue(amount)
                 > MaxDurationMinutes \div (unitSeconds \div 60)
         THEN 0
    ELSE 0 - DecimalValue(amount) * unitSeconds

\* currentDate.Format(time.RFC3339): the text of an instant, here one element
\* holding its seconds.  parseTime's "" is the empty text.
FormatRFC3339(t) == <<t>>

\* A normalisation that answers the current instant for every phrase.
parseTimeOfNow(relativeTime, currentDate) == FormatRFC3339(currentDate)

parseTime(relativeTime, currentDate) ==
    LET fields == Fields(relativeTime)
    IN  IF Len(fields) < 2 THEN <<>>
        ELSE LET amount == fields[1]
                 unit == fields[2]
             IN  IF Contains(unit, <<"m", "i", "n", "u", "t", "e">>)
                 THEN FormatRFC3339(currentDate + ParseDuration(amount, 60))
                 ELSE IF Contains(unit, <<"h", "o", "u", "r">>)
                 THEN FormatRFC3339(currentDate + ParseDuration(amount, 3600))
                 ELSE IF Contains(unit, <<"s", "e", "c", "o", "n", "d">>)
                 THEN FormatRFC3339(currentDate + ParseDuration(amount, 1))
                 ELSE FormatRFC3339(currentDate)

\* time.Parse(time.RFC3339, timestamp): an error for a text that is no instant.
TimeParseOk(timestamp) == Len(timestamp) = 1
TimeParse(timestamp) == timestamp[1]

\* t.Format("2006-01-02") and t.Format("15:04:05"): the day and the second of
\* the day of an instant.
FormatDate(t) == t \div 86400
FormatClock(t) == t % 86400

\* report.X = report.X[:maxLength] when len(report.X) > maxLength
Cap(s) == IF Len(s) > maxLength THEN SubSeq(s, 1, maxLength) ELSE s

\* The type of a card: the alt text of the images of the address section as
\* the Each loop leaves it, then its first word.  An image is <<alt>> when it
\* has an alt attribute and <<>> when it has none.
LastAlt(imgs) ==
    LET A[n \in 0..Len(imgs)] ==
            IF n = 0 THEN <<>>
            ELSE IF Len(imgs[n]) = 1 THEN imgs[n][1] ELSE A[n - 1]
    IN  A[Len(imgs)]

ImgAlt(imgs) ==
    LET imgAlt == LastAlt(imgs)
        words == Fields(imgAlt)
    IN  IF imgAlt # <<>> /\ Len(words) > 0 THEN words[1] ELSE imgAlt

\* totalPages := (totalReports / 15) + 1; Go's / truncates toward zero.
GoDiv(a, b) == IF a >= 0 THEN a \div b ELSE 0 - ((0 - a) \div b)

\* A page count that rounds up instead: no page for 0, one page for 15.
TotalPagesRoundedUp(total) == GoDiv(total + PageSize - 1, PageSize)
TotalPages(total) == GoDiv(total, PageSize) + 1

\* getTotalReports, after the fetch: the first word of the results title.
ParseTotalReports(title) ==
    LET words == Fields(title)
    IN  IF Len(words) > 0 THEN Atoi(words[1]) ELSE 0


(***************************************************************************)
(* What the remote site can show.  A card holds the texts scrapePage reads *)
(* from it; chromedp.WaitVisible returns only once the page shows a card   *)
(* (or a results title), so a fetched page holds at least one.             *)
(***************************************************************************)
Phrase5Minutes == <<"5", " ", "m", "i", "n", "u", "t", "e", "s">>
Phrase2Hours == <<"2", " ", "h", "o", "u", "r", "s">>
PhraseNow == <<"n", "o", "w">>

CardA == [category |-> <<"p", "h">>,
          name |-> <<" ", "p", "a", "y", "2", " ", "m", "e", "!", " ">>,
          address |-> <<"0", "x", "1">>,
          domain |-> <<"a", ".", "i", "o">>,
          submitted |-> Phrase5Minutes,
          imgs |-> << <<<<"E", "T", "H", " ", "l", "o", "g", "o">>>> >>]

\* The card of CardA's report, seen later: another submitted phrase.
CardA2 == [CardA EXCEPT !.submitted = Phrase2Hours]

CardB == [category |-> <<"r", "u", "g">>,
          name |-> <<"s", "c", "a", "m">>,
          address |-> <<"b", "c", "1">>,
          domain |-> <<>>,
          submitted |-> Phrase2Hours,
          imgs |-> << <<<<"B", "T", "C", " ", "x">>>>,
                      <<>>,
                      <<<<"E", "T", "H">>>> >>]

\* A card whose category is one character longer than maxLength.
CardLong == [CardB EXCEPT !.category = Rep("c", maxLength + 1)]

\* A card whose submitted phrase has one word.
CardBad == [CardB EXCEPT !.submitted = PhraseNow]

Cards == {CardA, CardA2, CardB, CardLong, CardBad}

\* Texts of the results title of the count page.
Titles == { <<"0", " ", "r">>,
            <<"1", "4", " ", "r">>,
            <<"1", "5", " ", "r">>,
            <<"3", "1">>,
            <<"1", "5", "k", " ", "r">>,
            Rep("9", 20) \o <<" ", "r">>,
            <<"n", "o", " ", "r">>,
            <<>> }

(***************************************************************************)
(* The state.                                                              *)
(***************************************************************************)
VARIABLES
    pc,            \* where the startScrapingJob goroutine stands
    fatal,         \* the log.Fatal call that ended the process, or "none"
    pass,          \* createReports calls so far
    totalReports,  \* createReports' totalReports
    totalPages,    \* createReports' totalPages
    i,             \* createReports' page index
    cards,         \* how many cards the page scrapePage fetched holds
    k,             \* the card the Each loop stands at, from 1
    db,            \* the rows of the reports table, in insertion order; initDB
                   \* creates the table only if none exists, and an insert
                   \* the table refuses is a failing insert
    nextId,        \* the next value of uuid.New()
    now,           \* time.Now(), in seconds
    passEnd,       \* the instant the last createReports call returned
    wakeAt,        \* the instant time.Sleep returns
    visited,       \* the page indexes scrapePage fetched in this pass
    failed,        \* what failed in the job's last step, or "none"
    resp,          \* the last request and its answer
    burst,         \* per client, the requests sent at the instant now
    seen,          \* the results title and the card the job read last
    call           \* one call of parseTime: its phrase, its instant, its result

vars == <<pc, fatal, pass, totalReports, totalPages, i, cards, k, db, nextId,
          now, passEnd, wakeAt, visited, failed, resp, burst, seen, call>>

jobVars == <<pc, pass, totalReports, totalPages, i, cards, k, nextId,
             passEnd, wakeAt, visited, failed>>

NoResp == [handler |-> "none", client |-> "none", id |-> 0, failed |-> "none",
           status |-> 0, rows |-> <<>>, text |-> ""]

NoCard == [category |-> <<>>, name |-> <<>>, address |-> <<>>,
           domain |-> <<>>, submitted |-> <<>>, imgs |-> <<>>]

NoSeen == [title |-> <<>>, card |-> NoCard]

NoCall == [amount |-> <<>>, unit |-> <<>>, ref |-> 0, done |-> FALSE,
           out |-> <<>>]

\* The state as main leaves it when it starts the job and the server.
Boot ==
    /\ pc = "start"
    /\ fatal = "none"
    /\ pass = 0
    /\ totalReports = 0
    /\ totalPages = 0
    /\ i = 0
    /\ cards = 0
    /\ k = 0
    /\ db = <<>>
    /\ nextId = 1
    /\ now = 0
    /\ passEnd = 0
    /\ wakeAt = 0
    /\ visited = <<>>
    /\ failed = "none"
    /\ resp = NoResp
    /\ burst = [c \in Clients |-> 0]
    /\ seen = NoSeen

Init == Boot /\ call = NoCall

Running == fatal = "none"


(***************************************************************************)
(* The scraping job.                                                       *)
(***************************************************************************)
\* log.Fatal: the message is written and the process exits.
Fatal(caller, what) ==
    /\ fatal' = caller
    /\ failed' = what
    /\ UNCHANGED <<pc, pass, totalReports, totalPages, i, cards, k, db, nextId,
                   passEnd, wakeAt, visited>>

\* createReports up to its loop: getTotalReports fetches the count page; an
\* error is fatal, a result sets totalReports and totalPages.
GetTotalReportsError ==
    /\ Running /\ pc = "start" /\ pass < MaxPasses
    /\ fatal' = "createReports"
    /\ failed' = "getTotalReports"
    /\ pass' = pass + 1
    /\ visited' = <<>>
    /\ UNCHANGED <<pc, totalReports, totalPages, i, cards, k, db, nextId, now,
                   passEnd, wakeAt, resp, burst, seen, call>>

GetTotalReportsOf(title) ==
    /\ Running /\ pc = "start" /\ pass < MaxPasses
    /\ totalReports' = ParseTotalReports(title)
    /\ totalPages' = TotalPages(ParseTotalReports(title))
    /\ pass' = pass + 1
    /\ i' = 0
    /\ visited' = <<>>
    /\ failed' = "none"
    /\ pc' = "pages"
    /\ UNCHANGED <<fatal, cards, k, db, nextId, now, passEnd, wakeAt, resp,
                   burst, call>>

GetTotalReports ==
    \E title \in Titles : GetTotalReportsOf(title) /\ UNCHANGED seen

\* scrapePage up to its Each loop: chromedp.Run fetches page i.
NavigateError ==
    /\ Running /\ pc = "pages" /\ i < totalPages /\ i < MaxPages
    /\ Fatal("scrapePage", "navigate")
    /\ UNCHANGED <<now, resp, burst, seen, call>>

Navigate ==
    /\ Running /\ pc = "pages" /\ i < totalPages /\ i < MaxPages
    /\ \E n \in 1..MaxCards : cards' = n
    /\ k' = 1
    /\ visited' = Append(visited, i)
    /\ failed' = "none"
    /\ pc' = "cards"
    /\ UNCHANGED <<fatal, pass, totalReports, totalPages, i, db, nextId, now,
                   passEnd, wakeAt, resp, burst, seen, call>>

\* SELECT EXISTS(... WHERE category = $1 AND name = $2 AND address = $3 AND
\* type = $4 AND domain = $5)
Exists(category, name, address, type, domain) ==
    \E j \in 1..Len(db) :
        /\ db[j].category = category
        /\ db[j].name = name
        /\ db[j].address = address
        /\ db[j].type = type
        /\ db[j].domain = domain

\* A closure that drops the check of the query's error: exists stays false.
InsertIgnoringQueryError(queryErr, exists) == ~exists

\* Whether the Each closure goes on to build and insert the report: not after
\* a query error (err != nil: return) nor when the row exists (return).
InsertAfterCheck(queryErr, exists) == ~queryErr /\ ~exists

\* The five values the Each closure hands to the existence query.
Candidate(e) ==
    <<e.category, processNameField(e.name), e.address, ImgAlt(e.imgs),
      e.domain>>

\* An insert that replaces the row of the same address, when there is one.
InsertOrReplace(table, report) ==
    IF \E j \in 1..Len(table) : table[j].address = report.address
    THEN [j \in 1..Len(table) |->
             IF table[j].address = report.address THEN report ELSE table[j]]
    ELSE Append(table, report)

\* INSERT INTO reports (...) VALUES ($1, ..., $8)
Insert(table, report) == Append(table, report)

\* The report as scrapePage builds it and caps it, lines 186 to 214.
Report(id, Category, name, Address, imgAlt, Domain, Timestamp, date) ==
    [id |-> id,
     category |-> Cap(Category),
     name |-> Cap(name),
     address |-> Cap(Address),
     type |-> Cap(imgAlt),
     domain |-> Cap(Domain),
     timestamp |-> Timestamp,
     date |-> date]

\* One run of the Each closure, on card k of the page: e is that card.
ScrapeCardOf(e) ==
    /\ Running /\ pc = "cards" /\ k <= cards
    /\ \E queryErr, insertErr \in BOOLEAN :
        LET Category == e.category
            Address == e.address
            Domain == e.domain
            imgAlt == ImgAlt(e.imgs)
            name == processNameField(e.name)
            timestamp == parseTime(e.submitted, now)
            t == TimeParse(timestamp)
            exists == /\ ~queryErr
                      /\ Exists(Category, name, Address, imgAlt, Domain)
            report == Report(nextId, Category, name, Address, imgAlt, Domain,
                             FormatClock(t), FormatDate(t))
        IN  IF ~TimeParseOk(timestamp)
            THEN /\ failed' = "parseTime"
                 /\ k' = k + 1
                 /\ UNCHANGED <<fatal, db, nextId>>
            ELSE IF ~InsertAfterCheck(queryErr, exists)
            THEN /\ failed' = IF queryErr THEN "exists" ELSE "none"
                 /\ k' = k + 1
                 /\ UNCHANGED <<fatal, db, nextId>>
            ELSE /\ nextId <= MaxIds
                 /\ nextId' = nextId + 1
                 /\ IF insertErr
                    THEN /\ fatal' = "scrapePage"
                         /\ failed' = "insert"
                         /\ UNCHANGED <<db, k>>
                    ELSE /\ db' = Insert(db, report)
                         /\ failed' = IF queryErr THEN "exists" ELSE "none"
                         /\ k' = k + 1
                         /\ UNCHANGED fatal
    /\ UNCHANGED <<pc, pass, totalReports, totalPages, i, cards, now,
                   passEnd, wakeAt, visited, resp, burst, call>>

ScrapeCard ==
    \E e \in Cards : ScrapeCardOf(e) /\ UNCHANGED seen

\* scrapePage returns after the last card, and the loop of createReports
\* goes to the next page.
ScrapePageDone ==
    /\ Running /\ pc = "cards" /\ k > cards
    /\ i' = i + 1
    /\ pc' = "pages"
    /\ UNCHANGED <<fatal, pass, totalReports, totalPages, cards, k, db, nextId,
                   now, passEnd, wakeAt, visited, failed, resp, burst, seen,
                   call>>

\* A loop without its sleep.
SleepUntilNow(t) == t

\* time.Sleep(60 * time.Minute) returns no earlier than this instant.
SleepUntil(t) == t + SleepInterval

\* createReports returns after the last page; startScrapingJob sleeps.
CreateReportsDone ==
    /\ Running /\ pc = "pages" /\ i >= totalPages
    /\ pc' = "sleep"
    /\ passEnd' = now
    /\ wakeAt' = SleepUntil(now)
    /\ UNCHANGED <<fatal, pass, totalReports, totalPages, i, cards, k, db,
                   nextId, now, visited, failed, resp, burst, seen, call>>

\* The sleep is over: the for loop of startScrapingJob starts over.
Wake ==
    /\ Running /\ pc = "sleep" /\ now >= wakeAt
    /\ pc' = "start"
    /\ UNCHANGED <<fatal, pass, totalReports, totalPages, i, cards, k, db,
                   nextId, now, passEnd, wakeAt, visited, failed, resp, burst,
                   seen, call>>

\* Time passes, by half a sleep interval or a whole one.
Tick ==
    /\ Running
    /\ \E d \in {SleepInterval \div 2, SleepInterval} :
          /\ now + d <= MaxNow
          /\ now' = now + d
    /\ burst' = [c \in Clients |-> 0]
    /\ UNCHANGED <<fatal, db, resp, seen, call>>
    /\ UNCHANGED jobVars


(***************************************************************************)
(* The read handlers.  main registers both on the router as they are, so a *)
(* request reaches its handler directly.                                   *)
(***************************************************************************)
Response(handler, c, id, err, status, rows, text) ==
    [handler |-> handler, client |-> c, id |-> id, failed |-> err,
     status |-> status, rows |-> rows, text |-> text]

\* GET /reports.  err is what the storage does: nothing, fail db.Query, or
\* fail rows.Scan on a row.  Either failure is log.Fatal.
getReports(c) ==
    /\ Running
    /\ \E err \in {"none", "query", "scan"} :
          /\ err = "scan" => Len(db) > 0
          /\ IF err = "none"
             THEN /\ resp' = Response("getReports", c, 0, err, StatusOK, db, "")
                  /\ UNCHANGED fatal
             ELSE /\ resp' = Response("getReports", c, 0, err, 0, <<>>, "")
                  /\ fatal' = "getReports"
    /\ UNCHANGED <<db, now, seen, call>>
    /\ UNCHANGED jobVars

\* SELECT ... FROM reports WHERE id = $1
SelectByID(id) == SelectSeq(db, LAMBDA r : r.id = id)

\* GET /reports/{id}.  Any error of QueryRow(...).Scan, sql.ErrNoRows or a
\* failure of the storage, is answered 404.
getReportByID(c, id) ==
    /\ Running
    /\ \E queryErr \in BOOLEAN :
          LET rows == SelectByID(id)
              err == queryErr \/ rows = <<>>
          IN  resp' = IF err
                      THEN Response("getReportByID", c, id,
                                    IF queryErr THEN "query" ELSE "none",
                                    StatusNotFound, <<>>, "Report not found")
                      ELSE Response("getReportByID", c, id, "none",
                                    StatusOK, <<rows[1]>>, "")
    /\ UNCHANGED <<fatal, db, now, seen, call>>
    /\ UNCHANGED jobVars

Next ==
    \/ GetTotalReportsError
    \/ GetTotalReports
    \/ NavigateError
    \/ Navigate
    \/ ScrapeCard
    \/ ScrapePageDone
    \/ CreateReportsDone
    \/ Wake
    \/ Tick
    \/ \E c \in Clients : getReports(c) /\ UNCHANGED burst
    \/ \E c \in Clients, id \in Ids : getReportByID(c, id) /\ UNCHANGED burst

Spec == Init /\ [][Next]_vars

(***************************************************************************)
(* The scraping job alone, as the clock ticks: the handlers write none of  *)
(* its variables and read the table only.                                  *)
(***************************************************************************)
NextJob ==
    \/ GetTotalReportsError
    \/ GetTotalReports
    \/ NavigateError
    \/ Navigate
    \/ ScrapeCard
    \/ ScrapePageDone
    \/ CreateReportsDone
    \/ Wake
    \/ Tick

SpecJob == Init /\ [][NextJob]_vars

(***************************************************************************)
(* Bursts of requests: the handlers alone, with the requests each client   *)
(* has sent at the instant now counted in burst.  A tick of the clock ends *)
(* the instant.                                                            *)
(***************************************************************************)
Immediate(c) ==
    /\ burst[c] < MaxBurst
    /\ burst' = [burst EXCEPT ![c] = @ + 1]

NextBurst ==
    \/ \E c \in Clients : Immediate(c) /\ getReports(c)
    \/ \E c \in Clients, id \in Ids : Immediate(c) /\ getReportByID(c, id)
    \/ Tick

SpecBurst == Init /\ [][NextBurst]_vars

(***************************************************************************)
(* The scraping job again, with what it read kept in seen: the results     *)
(* title of the count page of the pass, and the card of the last run of    *)
(* the Each closure.                                                       *)
(***************************************************************************)
SeenGetTotalReports ==
    \E title \in Titles :
        /\ GetTotalReportsOf(title)
        /\ seen' = [seen EXCEPT !.title = title]

SeenScrapeCard ==
    \E e \in Cards :
        /\ ScrapeCardOf(e)
        /\ seen' = [seen EXCEPT !.card = e]

NextSeen ==
    \/ GetTotalReportsError
    \/ SeenGetTotalReports
    \/ NavigateError
    \/ Navigate
    \/ SeenScrapeCard
    \/ ScrapePageDone
    \/ CreateReportsDone
    \/ Wake
    \/ Tick

SpecSeen == Init /\ [][NextSeen]_vars

(***************************************************************************)
(* parseTime alone: one call, on the phrase "<amount> <unit>" at the       *)
(* instant ref of time.Now().                                              *)
(***************************************************************************)
Amounts == { <<"0">>,
             <<"5">>,
             <<"9", "0">>,
             <<"2", "5", "6", "2", "0", "4", "8">>,
             <<"1", "5", "3", "7", "2", "2", "8", "6", "8">> }

Units == { <<"m", "i", "n", "u", "t", "e">>,
           <<"m", "i", "n", "u", "t", "e", "s">>,
           <<"h", "o", "u", "r">>,
           <<"h", "o", "u", "r", "s">>,
           <<"s", "e", "c", "o", "n", "d">>,
           <<"s", "e", "c", "o", "n", "d", "s">>,
           <<"h", "o", "u", "r", "m", "i", "n", "u", "t", "e">>,
           <<"d", "a", "y", "s">> }

Instants == {0, MaxNow}

Calls == [amount : Amounts, unit : Units, ref : Instants, done : {FALSE},
          out : {<<>>}]

InitParse == Boot /\ call \in Calls

Resolve ==
    /\ ~call.done
    /\ call' = [call EXCEPT
                   !.done = TRUE,
                   !.out = parseTime(call.amount \o <<" ">> \o call.unit,
                                     call.ref)]
    /\ UNCHANGED <<pc, fatal, pass, totalReports, totalPages, i, cards, k, db,
                   nextId, now, passEnd, wakeAt, visited, failed, resp, burst,
                   seen>>

NextParse == Resolve

SpecParse == InitParse /\ [][NextParse]_vars


(***************************************************************************)
(* Properties.                                                             *)
(***************************************************************************)
Identity(r) == <<r.category, r.name, r.address, r.type, r.domain>>

\* C1: no two rows of the table share the identity tuple (category, name,
\* address, type, domain), whatever the cards, their lengths and the
\* instants of the passes that ingested them.
C1_OneRowPerIdentity ==
    \A a, b \in 1..Len(db) : Identity(db[a]) = Identity(db[b]) => a = b

\* C2: after the count-discovery fetch failed, the process is running, no
\* page of the pass was visited, and the job sleeps until its next pass.
C2_CountFailureEndsPassOnly ==
    failed = "getTotalReports" =>
        (fatal = "none" /\ pc = "sleep" /\ visited = <<>>)

\* C3: after the fetch of a content page failed, the process is running and
\* the pass stands at its page loop, to go on with the next page.
C3_PageFailureSkipsPage ==
    failed = "navigate" => (fatal = "none" /\ pc = "pages")

\* C4: after the insert of a candidate failed, the process is running and
\* the pass stands in the card loop of the page, to go on with the next card.
C4_InsertFailureLosesCandidate ==
    failed = "insert" => (fatal = "none" /\ pc = "cards")

\* C5: the run of the card closure whose existence query fails leaves the
\* table as it was (no insert, no uuid drawn), leaves the process running,
\* and moves to the next card of the page.
C5_QueryFailureDropsCandidate ==
    [][(failed' = "exists" /\ k' # k) =>
          (db' = db /\ nextId' = nextId /\ fatal' = "none"
              /\ pc' = "cards" /\ k' = k + 1)]_vars

C5_Witness ==
    failed = "exists" /\ pc = "cards" /\ k = 2 /\ k <= cards /\ Len(db) = 1

\* C6: of the requests one client sends at one instant, the first 5 are not
\* answered 429 and every later one is answered 429, its handler not run.
C6_SixthImmediateRequestThrottled ==
    resp.handler # "none" =>
        IF burst[resp.client] <= 5
        THEN resp.status # 429
        ELSE resp.status = 429 /\ resp.rows = <<>>

\* C7: a request whose storage call failed leaves the process running and is
\* answered with a server-error status.
C7_StorageFailureAnswersServerError ==
    resp.failed # "none" => (fatal # "getReports" /\ resp.status >= 500)

\* C8: GET /reports/{id} answers 404 "Report not found" when no row of the
\* table has the id, and 200 with that row when one has.
C8_LookupMatchesTable ==
    [][(resp' # resp /\ resp'.handler = "getReportByID") =>
          LET rows == SelectByID(resp'.id)
          IN  IF rows = <<>>
              THEN resp'.status = 404 /\ resp'.text = "Report not found"
              ELSE resp'.status = 200 /\ resp'.rows = <<rows[1]>>]_vars

\* C9: the pages a pass has visited are 0, 1, 2, ... in this order, never
\* more than totalReports / 15 + 1 of them, and exactly that many once the
\* pass has completed.
C9_PagesOfAPass ==
    (pass > 0 /\ totalReports >= 0) =>
        /\ visited = [j \in 1..Len(visited) |-> j - 1]
        /\ Len(visited) <= totalReports \div 15 + 1
        /\ pc = "sleep" => Len(visited) = totalReports \div 15 + 1

C9_Witness ==
    pc = "sleep" /\ totalReports = 15 /\ visited = <<0, 1>>

\* C10: a pass starts only from the top of the job's loop, with no pass in
\* progress, and a pass after the first starts no earlier than one sleep
\* interval after the pass before it ended.
C10_PassesAreSequential ==
    [][pass' # pass =>
          /\ pc = "start"
          /\ pass' = pass + 1
          /\ pass > 0 => now >= passEnd + 3600]_vars

C10_Witness ==
    pass = 2 /\ pc = "cards" /\ Len(db) = 1


\* C11: the run of the card closure on a card whose submitted phrase has
\* fewer than two whitespace-separated words ends at the failure of the
\* normalisation: the table is as it was, no uuid is drawn, the process
\* runs, and the loop stands at the next card of the page.
C11_ShortPhraseSkipsCardOnly ==
    [][(/\ pc = "cards" /\ k <= cards
        /\ (k' # k \/ fatal' # fatal)
        /\ Len(Fields(seen'.card.submitted)) < 2) =>
          (/\ failed' = "parseTime"
           /\ db' = db /\ nextId' = nextId
           /\ fatal' = "none"
           /\ pc' = "cards" /\ k' = k + 1)]_vars

C11_Witness ==
    /\ failed = "parseTime" /\ seen.card = CardBad
    /\ pc = "cards" /\ k = 2 /\ k <= cards /\ Len(db) = 1

\* The seconds of the unit a unit word names: "minute" before "hour" before
\* "second", and 0 for a word that holds none of them.
C12_UnitSeconds(unit) ==
    IF Contains(unit, <<"m", "i", "n", "u", "t", "e">>) THEN 60
    ELSE IF Contains(unit, <<"h", "o", "u", "r">>) THEN 3600
    ELSE IF Contains(unit, <<"s", "e", "c", "o", "n", "d">>) THEN 1
    ELSE 0

\* C12: the result of parseTime on "<n> <unit>" at the instant R is the
\* instant R - n * unit, for every number n and every unit word; a unit
\* word that names no unit gives R.
C12_OffsetIsExact ==
    call.done =>
        /\ Len(call.out) = 1
        /\ LET offset == call.ref - call.out[1]
               unit == C12_UnitSeconds(call.unit)
           IN  IF unit = 0 THEN offset = 0
               ELSE /\ offset % unit = 0
                    /\ offset \div unit = DecimalValue(call.amount)

\* C13: the five values of the row an insert writes are the five values the
\* existence check of that card compared, whatever the lengths of the texts
\* of the card.
C13_CheckedValuesAreWritten ==
    [][db' # db =>
          Identity(db'[Len(db')]) = Candidate(seen'.card)]_vars

\* The first word of the alt text of the first image, and the empty text
\* when there is no image.
C14_FirstImageWord(imgs) ==
    LET alt == IF Len(imgs) > 0 /\ Len(imgs[1]) = 1 THEN imgs[1][1] ELSE <<>>
        words == Fields(alt)
    IN  IF Len(words) > 0 THEN words[1] ELSE <<>>

\* C14: the type of the row an insert writes is the first word of the alt
\* text of the first image of the address section of its card.
C14_TypeIsFirstImageWord ==
    [][db' # db =>
          db'[Len(db')].type = C14_FirstImageWord(seen'.card.imgs)]_vars

\* C15: every step keeps every row of the table, at its place and with its
\* values; a step of a read handler leaves the whole table as it was.
C15_RowsAreImmutable ==
    [][/\ Len(db') >= Len(db)
       /\ \A j \in 1..Len(db) : db'[j] = db[j]
       /\ resp' # resp => db' = db]_vars

C15_Witness ==
    /\ Len(db) = 2 /\ db[1].address = db[2].address
    /\ resp.handler = "getReports" /\ resp.status = StatusOK
    /\ resp.rows = db

\* C16: in a pass whose count page was fetched, when the results title is
\* empty or strconv.Atoi gives an error for its first word, totalReports is
\* 0, the pass has one page, and a completed pass has visited page 0 alone.
C16_UnparseableCountIsZero ==
    (/\ pass > 0 /\ failed # "getTotalReports"
     /\ \/ Fields(seen.title) = <<>>
        \/ AtoiErr(Fields(seen.title)[1])) =>
        /\ totalReports = 0
        /\ totalPages = 1
        /\ pc = "sleep" => visited = <<0>>

==========================================================================
